---- MODULE Spec2Model ----
(***************************************************************************)
(* A model of tsv2folia/tsvlib.py: the reader of the PARSEME TSV format.   *)
(*                                                                         *)
(* A text is a sequence of one-character strings; a line is a text without *)
(* its line terminator (str.strip() removes the terminator anyway); the    *)
(* stream is the sequence of the file's lines.  The decoders are modelled  *)
(* one line per step; mwe_infos() is modelled as the consumer's call on    *)
(* the sentence it was handed last, as in the module's __main__ loop.      *)
(***************************************************************************)
EXTENDS Integers, Sequences, FiniteSets, TLC

VARIABLES stream, decoder, pc, pos, sentence, yielded, err, infos

vars == <<stream, decoder, pc, pos, sentence, yielded, err, infos>>

(***************************************************************************)
(* Bounds of the model.                                                    *)
(***************************************************************************)
MaxLines == 4
MaxTabs == 10
MaxCodeLen == 4
MaxWords == 3
MaxBody == 3

(***************************************************************************)
(* Characters and Python's string primitives.                              *)
(***************************************************************************)
TAB == "\t"
SP == " "

\* The characters str.strip() removes and int() skips around a literal.
Whitespace == {" ", "\t", "\n", "\r"}

Digits == {"0", "1", "2", "3", "4", "5", "6", "7", "8", "9"}

\* Python's None; no text equals it (a text holds one-character strings).
None == <<"None">>

RECURSIVE LStrip(_)
LStrip(s) ==
    IF s # <<>> /\ Head(s) \in Whitespace THEN LStrip(Tail(s)) ELSE s

RECURSIVE RStrip(_)
RStrip(s) ==
    IF s # <<>> /\ s[Len(s)] \in Whitespace
    THEN RStrip(SubSeq(s, 1, Len(s) - 1))
    ELSE s

\* str.strip()
Strip(s) == RStrip(LStrip(s))

\* str.split(sep) with a one-character separator: the fields between the
\* separators, empty fields kept, at least one field.
RECURSIVE SplitFrom(_, _, _)
SplitFrom(s, sep, cur) ==
    IF s = <<>> THEN <<cur>>
    ELSE IF Head(s) = sep THEN <<cur>> \o SplitFrom(Tail(s), sep, <<>>)
    ELSE SplitFrom(Tail(s), sep, Append(cur, Head(s)))

Split(s, sep) == SplitFrom(s, sep, <<>>)

\* fields.extend([""]*n)
Extend(fields, n) == fields \o [i \in 1..n |-> <<>>]

\* "{}:{}".format(a, b)
Format(a, b) == a \o <<":">> \o b

DigitValue(c) ==
    CASE c = "0" -> 0 [] c = "1" -> 1 [] c = "2" -> 2 [] c = "3" -> 3
      [] c = "4" -> 4 [] c = "5" -> 5 [] c = "6" -> 6 [] c = "7" -> 7
      [] c = "8" -> 8 [] c = "9" -> 9

\* The digits of an int() literal, scanned left to right: digits, with single
\* underscores allowed between two digits.  prev is "start", "digit" or
\* "underscore"; acc is the value read so far.
RECURSIVE ScanDigits(_, _, _)
ScanDigits(s, prev, acc) ==
    IF s = <<>> THEN [ok |-> prev = "digit", val |-> acc]
    ELSE IF Head(s) \in Digits
         THEN ScanDigits(Tail(s), "digit", 10 * acc + DigitValue(Head(s)))
    ELSE IF Head(s) = "_" /\ prev = "digit"
         THEN ScanDigits(Tail(s), "underscore", acc)
    ELSE [ok |-> FALSE, val |-> 0]

\* int() as a reader of non-negative integers only: a minus sign is refused.
PyIntUnsigned(s) ==
    LET t == Strip(s)
        signed == t # <<>> /\ Head(t) = "+"
        body == IF signed THEN Tail(t) ELSE t
    IN  ScanDigits(body, "start", 0)

\* int(s) in base 10: surrounding whitespace skipped, an optional sign, then
\* the digits.  ok is FALSE where int() raises ValueError.
PyInt(s) ==
    LET t == Strip(s)
        signed == t # <<>> /\ Head(t) \in {"+", "-"}
        body == IF signed THEN Tail(t) ELSE t
        r == ScanDigits(body, "start", 0)
    IN  IF ~r.ok THEN [ok |-> FALSE, val |-> 0]
        ELSE [ok |-> TRUE,
              val |-> IF signed /\ Head(t) = "-" THEN 0 - r.val ELSE r.val]

(***************************************************************************)
(* The records of the library.                                             *)
(***************************************************************************)
\* EMPTY = ["_", ""]
EMPTY == {<<"_">>, <<>>}

NSP == <<"n", "s", "p">>

TSVWord(surface, nsp, mwe_code, wpos) ==
    [surface |-> surface, nsp |-> nsp, mwe_code |-> mwe_code, pos |-> wpos]

MWEInfo(category, word_indexes) ==
    [category |-> category, word_indexes |-> word_indexes]

\* One (id, categ) pair of TSVWord.mwes_id_categ; ok is FALSE where int()
\* raises.
IdCateg(mwe_str) ==
    LET split == Split(mwe_str, ":")
        id == PyInt(split[1])
    IN  [ok |-> id.ok,
         mwe_id |-> id.val,
         mwe_categ |-> IF Len(split) > 1 THEN split[2] ELSE None]

\* TSVWord.mwes_id_categ: the pairs of the word's codes, in order.
mwes_id_categ(word) ==
    [i \in 1..Len(word.mwe_code) |-> IdCateg(word.mwe_code[i])]

\* AddIndex appending the WordID (from 1) instead of the word index (from 0).
AddIndexOneBased(m, mwe_id, mwe_categ, word_index) ==
    LET mwe_info == IF mwe_id \in DOMAIN m THEN m[mwe_id]
                    ELSE MWEInfo(mwe_categ, <<>>)
    IN  [k \in (DOMAIN m) \cup {mwe_id} |->
            IF k = mwe_id
            THEN MWEInfo(mwe_info.category,
                         Append(mwe_info.word_indexes, word_index + 1))
            ELSE m[k]]

\* AddIndex with the category of the last code of the id instead of the first.
AddIndexLastCategory(m, mwe_id, mwe_categ, word_index) ==
    LET mwe_info == IF mwe_id \in DOMAIN m THEN m[mwe_id]
                    ELSE MWEInfo(mwe_categ, <<>>)
    IN  [k \in (DOMAIN m) \cup {mwe_id} |->
            IF k = mwe_id
            THEN MWEInfo(mwe_categ, Append(mwe_info.word_indexes, word_index))
            ELSE m[k]]

\* mwe_infos.setdefault(mwe_id, MWEInfo(mwe_categ, [])), then the append.
AddIndex(m, mwe_id, mwe_categ, word_index) ==
    LET mwe_info == IF mwe_id \in DOMAIN m THEN m[mwe_id]
                    ELSE MWEInfo(mwe_categ, <<>>)
    IN  [k \in (DOMAIN m) \cup {mwe_id} |->
            IF k = mwe_id
            THEN MWEInfo(mwe_info.category,
                         Append(mwe_info.word_indexes, word_index))
            ELSE m[k]]

\* The inner loop of mwe_infos over one word's pairs, from the j-th on.  r is
\* the map so far, or the ValueError that ended the call: the pairs come from
\* a generator, so int() raises when the loop reaches the code.
RECURSIVE AddPairs(_, _, _, _)
AddPairs(r, pairs, j, word_index) ==
    IF r.status # "ok" \/ j > Len(pairs) THEN r
    ELSE IF ~pairs[j].ok THEN [status |-> "ValueError", map |-> <<>>]
    ELSE AddPairs([status |-> "ok",
                   map |-> AddIndex(r.map, pairs[j].mwe_id, pairs[j].mwe_categ,
                                    word_index)],
                  pairs, j + 1, word_index)

\* The outer loop of mwe_infos, from the i-th word on; word indexes are
\* those of enumerate(): the first word has index 0.
RECURSIVE AddWords(_, _, _)
AddWords(r, words, i) ==
    IF r.status # "ok" \/ i > Len(words) THEN r
    ELSE AddWords(AddPairs(r, mwes_id_categ(words[i]), 1, i - 1), words, i + 1)

\* TSVSentence.mwe_infos: the map, or the ValueError of the first code int()
\* cannot read.
mwe_infos(words) == AddWords([status |-> "ok", map |-> <<>>], words, 1)

(***************************************************************************)
(* The decoders' work on one line.                                         *)
(***************************************************************************)
\* if line.strip(): the line holds a word; else it closes the sentence.
IsData(line) == Strip(line) # <<>>

\* Nsp with the field trimmed before the comparison.
NspTrimmed(fields) == Strip(fields[3]) = NSP

\* nsp = (fields[2] == 'nsp'), the same in both decoders.
Nsp(fields) == fields[3] = NSP

\* The body of the official decoder's loop for a line that holds a word.
OfficialWord(line) ==
    LET fields == Extend(Split(Strip(line), TAB), 5)
        surface == fields[2]
        nsp == Nsp(fields)
        mwe_codes == IF fields[4] \in EMPTY THEN <<>>
                     ELSE Split(Strip(fields[4]), ";")
        wpos == IF fields[5] \in EMPTY THEN None ELSE fields[5]
    IN  TSVWord(surface, nsp, mwe_codes, wpos)

\* PlatinumCodes with the second slot before the first.
PlatinumCodesSwapped(fields) ==
    LET mwe_code_1 == IF fields[5] \in EMPTY THEN <<>>
                      ELSE <<Format(fields[5], fields[6])>>
        mwe_code_2 == IF fields[7] \in EMPTY THEN <<>>
                      ELSE <<Format(fields[7], fields[8])>>
    IN  mwe_code_2 \o mwe_code_1

\* mwe_code_1 + mwe_code_2 of the platinum decoder.
PlatinumCodes(fields) ==
    LET mwe_code_1 == IF fields[5] \in EMPTY THEN <<>>
                      ELSE <<Format(fields[5], fields[6])>>
        mwe_code_2 == IF fields[7] \in EMPTY THEN <<>>
                      ELSE <<Format(fields[7], fields[8])>>
    IN  mwe_code_1 \o mwe_code_2

\* The body of the platinum decoder's loop for a line that holds a word.
PlatinumWord(line) ==
    LET fields == Extend(Split(Strip(line), TAB), 9)
        surface == fields[2]
        nsp == Nsp(fields)
    IN  TSVWord(surface, nsp, PlatinumCodes(fields), None)

\* len(fileobj.buffer.peek().split(b"\n")[0].split(b"\t")): the fields of the
\* first line, read from the buffer without moving the stream's position.
NFields(s) ==
    LET first == IF s = <<>> THEN <<>> ELSE s[1]
    IN  Len(Split(first, TAB))

\* Dialect with the official range one field too wide.
DialectOffByOne(n_fields) ==
    IF 1 <= n_fields /\ n_fields <= 6 THEN "official"
    ELSE IF n_fields = 9 THEN "platinum"
    ELSE "error"

\* The dialect iter_tsv_sentences selects for a field count.
Dialect(n_fields) ==
    IF 1 <= n_fields /\ n_fields <= 5 THEN "official"
    ELSE IF n_fields = 9 THEN "platinum"
    ELSE "error"

\* next(fileobj); next(fileobj): the lines the platinum decoder skips.
HeaderLines == 2

(***************************************************************************)
(* The input streams of the model.                                         *)
(***************************************************************************)
SeqsUpTo(S, n) == UNION {[1..k -> S] : k \in 0..n}

RECURSIVE JoinTab(_)
JoinTab(fields) ==
    IF Len(fields) = 0 THEN <<>>
    ELSE IF Len(fields) = 1 THEN fields[1]
    ELSE fields[1] \o <<TAB>> \o JoinTab(Tail(fields))

\* Official lines: "1<TAB>T" and "2<TAB>c<TAB>nsp<TAB>1:I".
LineA == JoinTab(<< <<"1">>, <<"T">> >>)
LineB == JoinTab(<< <<"2">>, <<"c">>, NSP, <<"1", ":", "I">> >>)

\* Streams that exercise the segmentation: blank lines, lines of whitespace
\* only and lines that hold a word, in every order.
SegPool == SeqsUpTo({<<>>, <<SP>>, LineA, LineB}, MaxLines)

\* A line of k tabs, that is of k + 1 fields.
TabsLine(k) == [i \in 1..(2 * k + 1) |-> IF i % 2 = 1 THEN "x" ELSE TAB]

\* Streams whose first line has 1 .. MaxTabs + 1 fields.
DetectPool ==
    {<<TabsLine(k)>> \o rest :
        k \in 0..MaxTabs,
        rest \in {<<>>, <<LineA>>, <<LineA, LineB>>, << <<>>, LineA>>}}

\* Platinum lines: a 9-field header, and words with 0, 1 or 2 filled slots.
PlatHeader == TabsLine(8)
PlatA == JoinTab(<< <<"1">>, <<"T">>, <<>>, <<"_">>, <<"_">>, <<"_">>,
                    <<"_">>, <<"_">>, <<"_">> >>)
PlatB == JoinTab(<< <<"2">>, <<"c">>, NSP, <<"_">>, <<"1">>, <<"I">>,
                    <<"2">>, <<"L">>, <<"_">> >>)

\* Platinum streams: the two header lines are text, blank or shaped as data.
PlatPool ==
    {<<h1>> : h1 \in {PlatHeader, PlatB}}
    \cup {<<h1, h2>> \o body :
            h1 \in {PlatHeader, PlatB},
            h2 \in {<<>>, <<"h">>, PlatA, PlatB},
            body \in SeqsUpTo({<<>>, PlatA, PlatB}, MaxBody)}

\* One platinum word after the header, its no-space field and its two slots
\* ranging over placeholders and values.
PlatLinePool ==
    {<<PlatHeader, <<"h">>,
       lead \o JoinTab(<< <<"1">>, <<"w">>, f2, <<"_">>, f4, f5, f6, f7 >>)
            \o tail>> :
        lead \in {<<>>, <<SP>>},
        f2 \in {NSP, <<SP>> \o NSP, <<>>, <<"_">>},
        f4 \in {<<"_">>, <<>>, <<"1">>},
        f5 \in {<<"I">>, <<"_">>},
        f6 \in {<<"_">>, <<>>, <<"1">>, <<"2">>},
        f7 \in {<<"L">>, <<>>},
        tail \in {<<>>, <<TAB>>, <<TAB, "c">>}}

\* One official word whose no-space field and surroundings vary.
NspPool ==
    {<< <<"1">> >>, << <<"1", TAB, "w">> >>}
    \cup {<<lead \o JoinTab(<<f0, <<"w">>, f2>>) \o tail>> :
            lead \in {<<>>, <<SP>>, <<TAB>>},
            f0 \in {<<"1">>, <<>>},
            f2 \in {NSP, <<SP>> \o NSP, NSP \o <<SP>>, NSP \o <<"x">>,
                    <<"n">>, <<"_">>, <<>>},
            tail \in {<<>>, <<SP>>, <<TAB>>, <<TAB, SP>>, <<TAB, "1">>,
                      <<TAB, "_", TAB, "V">>}}

\* One official word whose MWE field is any text over the alphabet.
CodeAlphabet == {"1", "-", ":", ";", "a", "_", " "}

CodePool ==
    {<<JoinTab(<< <<"1">>, <<"w">>, <<"_">>, f3 >>)>> :
        f3 \in SeqsUpTo(CodeAlphabet, MaxCodeLen)}

\* Official sentences of 1 .. MaxWords words that share MWE ids.
InfoCodes ==
    {<<"_">>, <<"1">>, <<"1", ":", "A">>, <<"1", ":", "B">>, <<"2", ":", "A">>,
     <<"1", ";", "1">>, <<"1", ":", "A", ";", "1", ":", "B">>,
     <<"2", ";", "1", ":", "B">>}

InfoPool ==
    {[i \in 1..n |-> JoinTab(<< <<"1">>, <<"w">>, <<"_">>, c[i] >>)] :
        n \in 1..MaxWords, c \in [1..MaxWords -> InfoCodes]}

Streams == SegPool \cup DetectPool \cup PlatPool \cup PlatLinePool
           \cup NspPool \cup CodePool \cup InfoPool

(***************************************************************************)
(* The state machine.                                                      *)
(*                                                                         *)
(* pos counts the lines read from the stream.  A word of the sentence is   *)
(* kept with ln, the number of the line it was decoded from, and a yielded *)
(* sentence with at, the number of the line that closed it (one past the   *)
(* last line when the end of the stream did): ln and at are history, the   *)
(* program does not hold them.  infos is the result of the last            *)
(* mwe_infos() call and k the number of the yielded sentence it was made   *)
(* on.                                                                     *)
(***************************************************************************)
NoInfos == [k |-> 0, status |-> "none", map |-> <<>>]

Init ==
    /\ stream \in Streams
    /\ decoder = "none"
    /\ pc = "start"
    /\ pos = 0
    /\ sentence = <<>>
    /\ yielded = <<>>
    /\ err = "none"
    /\ infos = NoInfos

\* iter_tsv_sentences: peek at the first line and select the decoder.  The
\* decoders are generators: none of their code runs before the first pull.
Detect ==
    /\ pc = "start"
    /\ LET d == Dialect(NFields(stream))
       IN  /\ pc' = d
           /\ decoder' = IF d = "error" THEN "none" ELSE d
           /\ err' = IF d = "error" THEN "BadInputFile" ELSE "none"
    /\ UNCHANGED <<stream, pos, sentence, yielded, infos>>

\* The sentence and the yielded list after the decoder's loop body ran on
\* line number n, whose word is w.
AfterLine(line, n, w) ==
    IF IsData(line)
    THEN [sentence |-> Append(sentence, [word |-> w, ln |-> n]),
          yielded |-> yielded]
    ELSE [sentence |-> <<>>,
          yielded |-> Append(yielded, [words |-> sentence, at |-> n])]

\* AfterEnd without the final yield: the pending sentence is dropped.
AfterEndNoFlush == yielded

\* if sentence: yield sentence, after the loop.
AfterEnd ==
    IF sentence # <<>>
    THEN Append(yielded, [words |-> sentence, at |-> Len(stream) + 1])
    ELSE yielded

\* iter_tsv_sentences_official: one iteration of "for line in fileobj".
OfficialLine ==
    /\ pc = "official"
    /\ pos < Len(stream)
    /\ LET line == stream[pos + 1]
           r == AfterLine(line, pos + 1, OfficialWord(line))
       IN  /\ sentence' = r.sentence
           /\ yielded' = r.yielded
    /\ pos' = pos + 1
    /\ UNCHANGED <<stream, decoder, pc, err, infos>>

\* iter_tsv_sentences_official: the end of the stream.
OfficialEnd ==
    /\ pc = "official"
    /\ pos = Len(stream)
    /\ yielded' = AfterEnd
    /\ sentence' = <<>>
    /\ pc' = "done"
    /\ UNCHANGED <<stream, decoder, pos, err, infos>>

\* PlatinumHeader skipping one line only.
PlatinumHeaderOneLine ==
    /\ pc = "platinum"
    /\ pos' = 1
    /\ pc' = "platinum_body"
    /\ UNCHANGED <<stream, decoder, sentence, yielded, err, infos>>

\* iter_tsv_sentences_platinum: next(fileobj); next(fileobj).  On a stream
\* of fewer lines next() raises StopIteration and the generator ends in
\* error without a sentence.
PlatinumHeader ==
    /\ pc = "platinum"
    /\ IF Len(stream) >= HeaderLines
       THEN /\ pos' = HeaderLines
            /\ pc' = "platinum_body"
            /\ err' = err
       ELSE /\ pos' = Len(stream)
            /\ pc' = "error"
            /\ err' = "StopIteration"
    /\ UNCHANGED <<stream, decoder, sentence, yielded, infos>>

\* iter_tsv_sentences_platinum: one iteration of "for line in fileobj".
PlatinumLine ==
    /\ pc = "platinum_body"
    /\ pos < Len(stream)
    /\ LET line == stream[pos + 1]
           r == AfterLine(line, pos + 1, PlatinumWord(line))
       IN  /\ sentence' = r.sentence
           /\ yielded' = r.yielded
    /\ pos' = pos + 1
    /\ UNCHANGED <<stream, decoder, pc, err, infos>>

\* iter_tsv_sentences_platinum: the end of the stream.
PlatinumEnd ==
    /\ pc = "platinum_body"
    /\ pos = Len(stream)
    /\ yielded' = AfterEnd
    /\ sentence' = <<>>
    /\ pc' = "done"
    /\ UNCHANGED <<stream, decoder, pos, err, infos>>

\* The words of a yielded sentence, as the caller holds them.
Words(y) == [i \in 1..Len(y.words) |-> y.words[i].word]

\* The caller's tsv_sentence.mwe_infos() on the sentence yielded last.
MweInfos ==
    /\ yielded # <<>>
    /\ LET r == mwe_infos(Words(yielded[Len(yielded)]))
       IN  infos' = [k |-> Len(yielded), status |-> r.status, map |-> r.map]
    /\ UNCHANGED <<stream, decoder, pc, pos, sentence, yielded, err>>

Next ==
    \/ Detect
    \/ OfficialLine
    \/ OfficialEnd
    \/ PlatinumHeader
    \/ PlatinumLine
    \/ PlatinumEnd
    \/ MweInfos

Spec == Init /\ [][Next]_vars

(***************************************************************************)
(* The vocabulary of the properties.  These definitions say what a text    *)
(* is by the positions of its characters; they do not use the scanners     *)
(* above.                                                                  *)
(***************************************************************************)
Min(S) == CHOOSE x \in S : \A y \in S : x <= y
Max(S) == CHOOSE x \in S : \A y \in S : x >= y

\* A line of whitespace only.
Blank(line) == \A i \in 1..Len(line) : line[i] \in Whitespace

NonWs(s) == {i \in 1..Len(s) : s[i] \notin Whitespace}

\* s without its leading and trailing whitespace.
Trimmed(s) ==
    IF NonWs(s) = {} THEN <<>> ELSE SubSeq(s, Min(NonWs(s)), Max(NonWs(s)))

Seps(s, c) == {i \in 1..Len(s) : s[i] = c}

\* The position of the k-th c of s; 0 before the first field, one past the
\* end of s after the last.
NthSep(s, c, k) ==
    IF k = 0 THEN 0
    ELSE IF k > Cardinality(Seps(s, c)) THEN Len(s) + 1
    ELSE CHOOSE i \in Seps(s, c) : Cardinality({j \in Seps(s, c) : j <= i}) = k

\* The k-th c-separated field of s; the empty text when s has fewer fields.
FieldAt(s, c, k) ==
    IF k - 1 > Cardinality(Seps(s, c)) THEN <<>>
    ELSE SubSeq(s, NthSep(s, c, k - 1) + 1, NthSep(s, c, k) - 1)

\* The words decoded so far, with their lines, in the order they were decoded.
RECURSIVE Flatten(_)
Flatten(ys) == IF ys = <<>> THEN <<>> ELSE Head(ys).words \o Flatten(Tail(ys))

Decoded == Flatten(yielded) \o sentence

Lns(entries) == {entries[i].ln : i \in 1..Len(entries)}

Increasing(q) == \A i \in 1..(Len(q) - 1) : q[i] < q[i + 1]
NonDecreasing(q) == \A i \in 1..(Len(q) - 1) : q[i] <= q[i + 1]

\* The part of a code before its first colon, and its category: the part
\* between the first colon and the next, None without a colon.
IdPart(t) == FieldAt(t, ":", 1)
CategPart(t) == IF Seps(t, ":") = {} THEN None ELSE FieldAt(t, ":", 2)

\* An integer literal as int() reads it: whitespace around it, an optional
\* sign, then digits, where one underscore may stand between two digits.
SignedBody(s) ==
    LET t == Trimmed(s)
    IN  IF t # <<>> /\ t[1] \in {"+", "-"} THEN SubSeq(t, 2, Len(t)) ELSE t

IsIntLiteral(s) ==
    LET b == SignedBody(s)
    IN  /\ b # <<>>
        /\ \A i \in 1..Len(b) : b[i] \in Digits \cup {"_"}
        /\ b[1] # "_" /\ b[Len(b)] # "_"
        /\ \A i \in 1..(Len(b) - 1) : ~(b[i] = "_" /\ b[i + 1] = "_")

RECURSIVE Decimal(_)
Decimal(d) ==
    IF d = <<>> THEN 0
    ELSE 10 * Decimal(SubSeq(d, 1, Len(d) - 1)) + DigitValue(d[Len(d)])

IsDigit(c) == c \in Digits

LiteralValue(s) ==
    LET v == Decimal(SelectSeq(SignedBody(s), IsDigit))
    IN  IF Trimmed(s)[1] = "-" THEN 0 - v ELSE v

\* The sentence the last mwe_infos() call was made on, and the places
\* <<word, code>> of its codes.
Asked == Words(yielded[infos.k])
Codes == {p \in (1..Len(Asked)) \X (1..2 + MaxCodeLen) :
            p[2] <= Len(Asked[p[1]].mwe_code)}
CodeAt(p) == Asked[p[1]].mwe_code[p[2]]
CodesOf(id) == {p \in Codes : LiteralValue(IdPart(CodeAt(p))) = id}
Before(p, q) == p[1] < q[1] \/ (p[1] = q[1] /\ p[2] <= q[2])
Count(q, x) == Cardinality({i \in 1..Len(q) : q[i] = x})

(***************************************************************************)
(* The claims.                                                             *)
(***************************************************************************)

\* C1: every sentence a decoder yields holds at least one word.
C1_YieldedNonEmpty ==
    \A k \in 1..Len(yielded) : yielded[k].words # <<>>

\* C3: once the official decoder has finished, the number of sentences it
\* yielded is the number of maximal runs of non-blank lines of the stream.
C3_CountEqualsGroups ==
    (pc = "done" /\ decoder = "official") =>
        Len(yielded) =
            Cardinality({i \in 1..Len(stream) :
                ~Blank(stream[i]) /\ (i = 1 \/ Blank(stream[i - 1]))})

\* C10: the official decoder loses, duplicates and reorders no word: the
\* words decoded so far are those of the non-blank lines read so far, one per
\* line and in the order of the lines; no sentence holds words of lines on
\* both sides of a blank line; and at the end of the stream every word is in
\* a yielded sentence, the pending sentence having been yielded last.
C10_NoWordLost ==
    decoder = "official" =>
        /\ Increasing([i \in 1..Len(Decoded) |-> Decoded[i].ln])
        /\ Lns(Decoded) = {n \in 1..pos : ~Blank(stream[n])}
        /\ \A i \in 1..Len(Decoded) :
              Decoded[i].word = OfficialWord(stream[Decoded[i].ln])
        /\ \A k \in 1..Len(yielded) :
              \A a, b \in Lns(yielded[k].words) :
                  \A n \in a..b : ~Blank(stream[n])
        /\ \A a, b \in Lns(sentence) : \A n \in a..b : ~Blank(stream[n])
        /\ pc = "done" =>
              /\ sentence = <<>>
              /\ Lns(Flatten(yielded)) = {n \in 1..Len(stream) : ~Blank(stream[n])}
              /\ (stream # <<>> /\ ~Blank(stream[Len(stream)])) =>
                    Len(stream) \in Lns(yielded[Len(yielded)].words)

C10_Witness ==
    /\ pc = "done" /\ decoder = "official"
    /\ Len(yielded) >= 2
    /\ yielded[Len(yielded)].at = Len(stream) + 1
    /\ Len(yielded[Len(yielded)].words) >= 2

\* C5: in a platinum stream no word is decoded from line 1 or line 2 and
\* neither line closes a sentence, whatever the two lines hold; every line
\* from line 3 on is either decoded into a word or closes a sentence.
C5_HeaderDiscarded ==
    decoder = "platinum" =>
        /\ \A n \in Lns(Decoded) : n >= 3
        /\ \A k \in 1..Len(yielded) : yielded[k].at >= 3
        /\ pc \in {"platinum_body", "done"} =>
              /\ Lns(Decoded) = {n \in 3..pos : ~Blank(stream[n])}
              /\ {yielded[k].at : k \in 1..Len(yielded)} \cap (1..Len(stream))
                    = {n \in 3..pos : Blank(stream[n])}

C5_Witness ==
    /\ decoder = "platinum" /\ pc = "done"
    /\ stream[1] = PlatB
    /\ Blank(stream[2])
    /\ Len(yielded) >= 2

\* The number of tab-separated fields of the stream's first line.
FirstLineFields ==
    1 + (IF stream = <<>> THEN 0 ELSE Cardinality(Seps(stream[1], TAB)))

\* C4: detection is total over the field count n of the first line: 1..5
\* selects the official decoder, 9 the platinum decoder, any other count
\* fails with the bad-input error and no sentence; detection consumes no
\* line, so the selected decoder starts at line 1.
C4_DetectionTotal ==
    pc # "start" =>
        /\ FirstLineFields \in 1..5 =>
              /\ decoder = "official" /\ err = "none"
              /\ (pos >= 1 /\ ~Blank(stream[1])) => Decoded[1].ln = 1
              /\ (pos >= 1 /\ Blank(stream[1])) => yielded[1].at = 1
        /\ FirstLineFields = 9 =>
              /\ decoder = "platinum" /\ err \in {"none", "StopIteration"}
              /\ pc = "platinum" => pos = 0
        /\ FirstLineFields \notin (1..5) \cup {9} =>
              /\ pc = "error" /\ err = "BadInputFile" /\ decoder = "none"
              /\ pos = 0 /\ yielded = <<>> /\ sentence = <<>>
        /\ pc \in {"official", "platinum"} /\ yielded = <<>> /\ sentence = <<>>
              => pos = 0

C4_Witness ==
    /\ pc = "error" /\ err = "BadInputFile"
    /\ FirstLineFields = 6
    /\ Len(stream) > 1

\* C7 as claimed: the flag of a decoded word is true exactly when the third
\* field of its line, trimmed of surrounding whitespace, is 'nsp'.  The
\* fields are read as the decoders read them, from the line without its
\* surrounding whitespace.
C7_TrimmedFieldIsNsp ==
    \A i \in 1..Len(Decoded) :
        Decoded[i].word.nsp <=>
            (Trimmed(FieldAt(Trimmed(stream[Decoded[i].ln]), TAB, 3)) = NSP)

\* C7 as amended: the flag of a decoded word is true exactly when the third
\* tab-separated field of its line, the line trimmed of surrounding
\* whitespace and the field taken as it stands, is 'nsp'.
C7_ExactFieldIsNsp ==
    \A i \in 1..Len(Decoded) :
        Decoded[i].word.nsp <=>
            (FieldAt(Trimmed(stream[Decoded[i].ln]), TAB, 3) = NSP)

C7_Witness ==
    /\ decoder = "platinum"
    /\ \E i \in 1..Len(Decoded) :
          /\ FieldAt(stream[Decoded[i].ln], TAB, 3) = <<SP>> \o NSP
          /\ ~Decoded[i].word.nsp

\* The code a platinum slot contributes: none for a placeholder id.
Slot(id, categ) ==
    IF id = <<>> \/ id = <<"_">> THEN <<>> ELSE << id \o <<":">> \o categ >>

\* C9: the codes of a platinum word are those of its first slot (fields 5
\* and 6) followed by those of its second slot (fields 7 and 8), a slot with
\* a placeholder id giving none and any other slot one code 'id:category';
\* there are at most 2 codes and the part of speech is absent.
C9_PlatinumCodes ==
    decoder = "platinum" =>
        \A i \in 1..Len(Decoded) :
            LET s == Trimmed(stream[Decoded[i].ln])
                w == Decoded[i].word
            IN  /\ w.mwe_code = Slot(FieldAt(s, TAB, 5), FieldAt(s, TAB, 6))
                                \o Slot(FieldAt(s, TAB, 7), FieldAt(s, TAB, 8))
                /\ Len(w.mwe_code) <= 2
                /\ w.pos = None

C9_Witness ==
    /\ decoder = "platinum"
    /\ \E i \in 1..Len(Decoded) :
          Decoded[i].word.mwe_code = << <<"1", ":", "I">>, <<"2", ":", "L">> >>
    /\ \E i \in 1..Len(Decoded) :
          /\ FieldAt(stream[Decoded[i].ln], TAB, 5) = <<"_">>
          /\ Decoded[i].word.mwe_code = <<>>

\* C6 as claimed: mwe_infos() fails exactly when some code of the sentence
\* has, before its first colon, something else than a non-negative integer,
\* and otherwise the ids of the map are the integers of the codes.
C6_FailsUnlessNonNegative ==
    infos.k > 0 =>
        /\ infos.status = "ValueError" <=>
              \E p \in Codes :
                  ~(/\ IsIntLiteral(IdPart(CodeAt(p)))
                    /\ LiteralValue(IdPart(CodeAt(p))) >= 0)
        /\ infos.status = "ok" =>
              DOMAIN infos.map = {LiteralValue(IdPart(CodeAt(p))) : p \in Codes}

\* C6 as amended: mwe_infos() fails exactly when some code of the sentence
\* has, before its first colon, something int() cannot read (a negative
\* number is read); otherwise the ids of the map are the integers of the
\* codes and each category is the part of one of the id's codes between the
\* first colon and the next, absent without a colon.  Decoding never fails
\* on a code.
C6_FailsUnlessInteger ==
    /\ err # "ValueError"
    /\ infos.k > 0 =>
        /\ infos.status = "ValueError" <=>
              \E p \in Codes : ~IsIntLiteral(IdPart(CodeAt(p)))
        /\ infos.status = "ok" =>
              /\ DOMAIN infos.map =
                    {LiteralValue(IdPart(CodeAt(p))) : p \in Codes}
              /\ \A id \in DOMAIN infos.map :
                    infos.map[id].category \in
                        {CategPart(CodeAt(p)) : p \in CodesOf(id)}

C6_Witness ==
    /\ infos.k > 0 /\ infos.status = "ok"
    /\ Len(Asked) = 1
    /\ Asked[1].mwe_code = << <<"-", "1", ":", "a">> >>
    /\ DOMAIN infos.map = {0 - 1}
    /\ infos.map[0 - 1].category = <<"a">>

\* C2 as claimed: in the map of mwe_infos() every list of word indexes is
\* non-empty, holds indexes of the sentence only and is strictly ascending.
C2_StrictlyAscending ==
    (infos.k > 0 /\ infos.status = "ok") =>
        \A id \in DOMAIN infos.map :
            LET q == infos.map[id].word_indexes
            IN  /\ q # <<>>
                /\ \A i \in 1..Len(q) : 0 <= q[i] /\ q[i] < Len(Asked)
                /\ Increasing(q)

\* C2 as amended: every list of word indexes is non-empty, holds indexes of
\* the sentence only and is ascending, an index standing once for each code
\* of its word that names the id: the list is strictly ascending unless a
\* word names the id in more than one of its codes.
C2_Ascending ==
    (infos.k > 0 /\ infos.status = "ok") =>
        \A id \in DOMAIN infos.map :
            LET q == infos.map[id].word_indexes
            IN  /\ q # <<>>
                /\ \A i \in 1..Len(q) : 0 <= q[i] /\ q[i] < Len(Asked)
                /\ NonDecreasing(q)
                /\ \A x \in 0..(Len(Asked) - 1) :
                      Count(q, x) =
                          Cardinality({p \in CodesOf(id) : p[1] = x + 1})

C2_Witness ==
    /\ infos.k > 0 /\ infos.status = "ok"
    /\ Len(Asked) = 3
    /\ 1 \in DOMAIN infos.map
    /\ infos.map[1].word_indexes = <<0, 2, 2>>

\* C8: the category of an id of the map is the category of the first code
\* that names the id, words taken in order and the codes of a word in order;
\* a later code of the id with another category changes nothing and is no
\* error.
C8_FirstCategoryWins ==
    infos.k > 0 =>
        /\ (\A p \in Codes : IsIntLiteral(IdPart(CodeAt(p)))) =>
              infos.status = "ok"
        /\ infos.status = "ok" =>
              \A id \in DOMAIN infos.map :
                  \E p \in CodesOf(id) :
                      /\ \A q \in CodesOf(id) : Before(p, q)
                      /\ infos.map[id].category = CategPart(CodeAt(p))

C8_Witness ==
    /\ infos.k > 0 /\ infos.status = "ok"
    /\ Len(Asked) >= 2
    /\ Asked[1].mwe_code = << <<"1">> >>
    /\ Asked[2].mwe_code = << <<"1", ":", "A">>, <<"1", ":", "B">> >>
    /\ infos.map[1].category = None

====
